---------------------------- MODULE Spec2Model ----------------------------
(***************************************************************************)
(* Leistungsnachweis generator (src/src/App.tsx) and its signature pads    *)
(* (src/src/components/SignaturePad.tsx) as a state machine.               *)
(*                                                                         *)
(* One action per event handler.  A handler runs to completion and React   *)
(* re-renders before the next event, so an action is the handler together  *)
(* with the re-render that follows it (the useMemo values are refreshed in  *)
(* the same step).                                                          *)
(*                                                                         *)
(* Text typed into the hours and rate inputs is a sequence of characters,   *)
(* because parseFloat reads it character by character; every other text     *)
(* field is an opaque string.  Finite numbers are kept exactly, in          *)
(* hundredths (the inputs drawn below have at most two decimals).           *)
(***************************************************************************)
EXTENDS Integers, Sequences, FiniteSets, TLC

VARIABLES
    customer,               \* useState<Customer>
    order,                  \* useState<Order>
    paymentMethod,          \* useState(paymentOptions[0])
    services,               \* useState<ServiceEntry[]>
    showSecondTechnician,   \* useState(false)
    companyTouched,         \* useState(false)
    technicianSignature,    \* useState<string | null>
    customerSignature,      \* useState<string | null>
    totalHours,             \* useMemo(..., [services])
    totalAmount,            \* useMemo(..., [services])
    companyAddress,         \* useMemo(..., [order.company])
    companyLabel,           \* useMemo(..., [order.company])
    uuids,                  \* number of ids crypto.randomUUID() has handed out
    pad,                    \* per signer role: the SignaturePad instance
    devicePixelRatio,       \* window.devicePixelRatio, as <<numerator, denominator>>
    event,                  \* the handler of App the latest event ran
    saved                   \* the documents that handler passed to pdf.save

appVars == <<customer, order, paymentMethod, services, showSecondTechnician,
             companyTouched, totalHours, totalAmount, companyAddress,
             companyLabel, uuids>>
sigVars == <<technicianSignature, customerSignature>>
padVars == <<pad, devicePixelRatio>>
vars == <<appVars, sigVars, padVars, event, saved>>

-----------------------------------------------------------------------------
(* Bounds of the model *)

\* crypto.randomUUID() is called at most this many times after construction
MaxAdded == 2

-----------------------------------------------------------------------------
(* JavaScript values *)

Null == [kind |-> "null"]
NaN == [kind |-> "NaN"]
Infinity(sign) == [kind |-> "Infinity", sign |-> sign]
Num(cents) == [kind |-> "num", cents |-> cents]

\* Number.isFinite
IsFinite(v) == v.kind = "num"

Digits == <<"0", "1", "2", "3", "4", "5", "6", "7", "8", "9">>
IsDigit(c) == \E d \in 1..10 : Digits[d] = c
DigitValue(c) == (CHOOSE d \in 1..10 : Digits[d] = c) - 1

\* the characters after the first n
Drop(s, n) == SubSeq(s, n + 1, Len(s))

IsPrefix(p, s) == Len(p) <= Len(s) /\ SubSeq(s, 1, Len(p)) = p

\* number of leading characters of s that are decimal digits
RECURSIVE DigitRun(_)
DigitRun(s) ==
    IF s # <<>> /\ IsDigit(Head(s)) THEN 1 + DigitRun(Tail(s)) ELSE 0

\* value of a run of decimal digits (0 for the empty run)
RECURSIVE DigitsValue(_)
DigitsValue(s) ==
    IF s = <<>> THEN 0
    ELSE 10 * DigitsValue(SubSeq(s, 1, Len(s) - 1)) + DigitValue(s[Len(s)])

RECURSIVE TrimStart(_)
TrimStart(s) ==
    IF s # <<>> /\ Head(s) = " " THEN TrimStart(Tail(s)) ELSE s

\* parseFloat / Number.parseFloat: leading white space is skipped, the longest
\* prefix that is a decimal literal is read, anything after it is ignored.
\* (No exponent part: the inputs below have none.)
ParseFloat(str) ==
    LET s0 == TrimStart(str)
        signed == s0 # <<>> /\ Head(s0) \in {"+", "-"}
        sign == IF signed /\ Head(s0) = "-" THEN -1 ELSE 1
        s1 == IF signed THEN Tail(s0) ELSE s0
        ni == DigitRun(s1)
        s2 == Drop(s1, ni)
        dotted == s2 # <<>> /\ Head(s2) = "."
        nf == IF dotted THEN DigitRun(Tail(s2)) ELSE 0
        frac == IF dotted THEN SubSeq(Tail(s2), 1, nf) ELSE <<>>
        \* hundredths: the first two fraction digits, padded with zeros
        frac2 == SubSeq(frac \o <<"0", "0">>, 1, 2)
    IN  IF IsPrefix(<<"I", "n", "f", "i", "n", "i", "t", "y">>, s1)
        THEN Infinity(sign)
        ELSE IF ni = 0 /\ nf = 0
        THEN NaN
        ELSE Num(sign * (100 * DigitsValue(SubSeq(s1, 1, ni)) + DigitsValue(frac2)))

\* decimal digits of a natural number
RECURSIVE NatToString(_)
NatToString(n) ==
    IF n < 10 THEN Digits[n + 1]
    ELSE NatToString(n \div 10) \o Digits[(n % 10) + 1]

Abs(n) == IF n < 0 THEN -n ELSE n

TwoDigits(n) == Digits[(n \div 10) + 1] \o Digits[(n % 10) + 1]

\* Number.prototype.toFixed(2) of a finite number
ToFixed2(v) ==
    (IF v.cents < 0 THEN "-" ELSE "")
        \o NatToString(Abs(v.cents) \div 100) \o "." \o TwoDigits(Abs(v.cents) % 100)

\* de-DE grouping of the integer part: a "." before every group of three digits
RECURSIVE Grouped(_)
Grouped(n) ==
    IF n < 1000 THEN NatToString(n)
    ELSE Grouped(n \div 1000) \o "."
            \o Digits[((n % 1000) \div 100) + 1] \o TwoDigits(n % 100)

\* formatCurrency: value.toLocaleString('de-DE', {style: 'currency', currency: 'EUR'})
formatCurrency(v) ==
    (IF v.cents < 0 THEN "-" ELSE "")
        \o Grouped(Abs(v.cents) \div 100) \o "," \o TwoDigits(Abs(v.cents) % 100)
        \o " €"     \* a no-break space, then the euro sign

-----------------------------------------------------------------------------
(* Fixed configuration data *)

companyOptions ==
    << [label |-> "IT Systemhaus Alsleben GmbH", value |-> "alsleben",
        address |-> "Treskowallee 114, 10319 Berlin"],
       [label |-> "Talk & Phone GmbH", value |-> "talk-phone",
        address |-> "Treskowallee 114, 10319 Berlin"] >>

paymentOptions == <<"Barzahlung", "Kartenzahlung", "Rechnung">>

\* new Date().getFullYear().toString()
CurrentYear == "2025"

Roles == {"technician", "customer"}

CustomerFields == {"fullName", "email", "street", "city", "phone"}
ServiceFields == {"date", "description", "hours", "rate"}

\* Math.min, Math.max
Min(a, b) == IF a < b THEN a ELSE b
Max(a, b) == IF a < b THEN b ELSE a

-----------------------------------------------------------------------------
(* Inputs: what the user types or picks *)

CustomerInputs(field) ==
    {"", CASE field = "fullName" -> "Max Mustermann"
           [] field = "email" -> "max@beispiel.de"
           [] field = "street" -> "Musterstr. 123"
           [] field = "city" -> "10115 Berlin"
           [] field = "phone" -> "+49 30 12345678"}

\* the company select offers the listed companies only: its empty option is disabled
OrderInputs(field) ==
    CASE field = "company" -> {companyOptions[i].value : i \in DOMAIN companyOptions}
      [] field = "orderNumber" -> {"", "AUF-2025-001"}
      [] field = "technician" -> {"", "Max Mueller"}
      [] field = "technicianTwo" -> {"", "Anna Schulz"}
      [] field = "month" -> {"", "November"}
      [] field = "year" -> {"", CurrentYear}

\* the hours and price inputs are of type number, and a browser hands over the
\* empty string for what is no number; handleServiceChange itself takes any
\* string, so a number, the empty string and text that is no finite number are drawn
HoursInputs == { <<>>, <<"2">>, <<"a", "b", "c">> }
RateInputs == { <<>>, <<"1", "0", ".", "5", "0">>, <<"I", "n", "f", "i", "n", "i", "t", "y">> }

\* words.join(" ")
RECURSIVE JoinWords(_)
JoinWords(words) ==
    IF words = <<>> THEN ""
    ELSE IF Len(words) = 1 THEN words[1]
    ELSE words[1] \o " " \o JoinWords(Tail(words))

\* the descriptions typed, word by word: one that fits a line of the description
\* column, one that needs two lines and one that needs three
DescriptionWords ==
    { << "Meeting" >>,
      << "Installation", "und", "Konfiguration", "des", "Routers", "vor", "Ort" >>,
      << "Wartung", "der", "Telefonanlage,", "Austausch", "der", "defekten",
         "Netzteile", "und", "Einweisung", "der", "Mitarbeiter" >> }

ServiceInputs(field) ==
    CASE field = "date" -> {"", "01.11.2025"}
      [] field = "description" -> {""} \cup {JoinWords(words) : words \in DescriptionWords}
      [] field = "hours" -> HoursInputs
      [] field = "rate" -> RateInputs

\* every id randomUUID can hand out within the bound: an id is absent from the
\* list before it is handed out and after its entry is removed
Ids == 1..(MaxAdded + 1)

-----------------------------------------------------------------------------
(* Form State Holder: derived values *)

\* parseFloat on the texts a numeric field can hold, tabulated once
ParseFloatTable == [str \in HoursInputs \cup RateInputs |-> ParseFloat(str)]
parseFloat(str) == ParseFloatTable[str]

\* createEmptyService, with the id crypto.randomUUID() returns
createEmptyService(id) ==
    [id |-> id, date |-> "", description |-> "", hours |-> <<>>, rate |-> <<>>]

\* services.reduce((acc, service) => ..., 0) over one numeric field
RECURSIVE ReduceFinite(_, _, _)
ReduceFinite(list, field, acc) ==
    IF list = <<>> THEN acc
    ELSE LET value == parseFloat(Head(list)[field])
         IN  ReduceFinite(Tail(list), field,
                          IF IsFinite(value) THEN Num(acc.cents + value.cents) ELSE acc)

ComputeTotalHours(list) == ReduceFinite(list, "hours", Num(0))
ComputeTotalAmount(list) == ReduceFinite(list, "rate", Num(0))

\* companyOptions.find((company) => company.value === value)
FindCompany(value) ==
    LET hits == {i \in DOMAIN companyOptions : companyOptions[i].value = value}
    IN  IF hits = {} THEN <<>>
        ELSE <<companyOptions[CHOOSE i \in hits : \A j \in hits : i <= j]>>

ComputeCompanyAddress(value) ==
    IF FindCompany(value) = <<>> THEN "" ELSE FindCompany(value)[1].address
\* (mutant) the option's value shown in place of its label
ComputeCompanyLabel_Value(value) ==
    IF FindCompany(value) = <<>> THEN "" ELSE FindCompany(value)[1].value

ComputeCompanyLabel(value) ==
    IF FindCompany(value) = <<>> THEN "" ELSE FindCompany(value)[1].label

\* (mutant) a memo whose dependency list is empty: computed once, never again
UseMemo_NoDeps(cached, depsChanged, fresh) == cached

\* useMemo: the cached value is kept unless a dependency changed identity
UseMemo(cached, depsChanged, fresh) == IF depsChanged THEN fresh ELSE cached

\* const companyError = companyTouched && !order.company
companyError == companyTouched /\ order.company = ""

-----------------------------------------------------------------------------
(* Document Renderer: what handleExportPdf writes into the PDF *)

\* value || fallback
Or(value, fallback) == IF value = "" THEN fallback ELSE value

\* lines.filter(Boolean)
FilterBoolean(lines) == SelectSeq(lines, LAMBDA line : line # "")

technicianLines ==
    FilterBoolean(<< Or(order.technician, "-"),
                     IF order.technicianTwo # "" THEN "+ " \o order.technicianTwo ELSE "",
                     companyLabel,
                     companyAddress >>)

customerLines ==
    FilterBoolean(<< Or(customer.fullName, "-"),
                     Or(customer.street, ""),
                     Or(customer.city, ""),
                     IF customer.phone # "" THEN "Tel: " \o customer.phone ELSE "",
                     IF customer.email # "" THEN "E-Mail: " \o customer.email ELSE "" >>)

\* the period line is trimmed: without a year it ends after the month
\* (the month and year inputs drawn have no white space at either end)
summaryLines ==
    << "Auftragsnummer: " \o Or(order.orderNumber, "-"),
       IF order.year = "" THEN "Zeitraum: " \o Or(order.month, "-")
       ELSE "Zeitraum: " \o Or(order.month, "-") \o " " \o order.year,
       "Zahlungsart: " \o paymentMethod >>

\* (mutant) a row that prints a number that does not parse as zero
ServiceRow_ZeroForNaN(service) ==
    LET hoursValue == parseFloat(service.hours)
        rateValue == parseFloat(service.rate)
    IN  [ dateText |-> Or(service.date, "-"),
          descText |-> Or(service.description, "-"),
          hoursText |-> ToFixed2(IF IsFinite(hoursValue) THEN hoursValue ELSE Num(0)),
          rateText |-> formatCurrency(IF IsFinite(rateValue) THEN rateValue ELSE Num(0)) ]

\* the texts of one table row
ServiceRow(service) ==
    LET hoursValue == parseFloat(service.hours)
        rateValue == parseFloat(service.rate)
    IN  [ dateText |-> Or(service.date, "-"),
          descText |-> Or(service.description, "-"),
          hoursText |-> IF IsFinite(hoursValue) THEN ToFixed2(hoursValue) ELSE "-",
          rateText |-> IF IsFinite(rateValue) THEN formatCurrency(rateValue) ELSE "-" ]

\* the page and the table's columns, in mm: an A4 page (its width to the mm)
pageWidth == 210
marginX == 20
tableWidth == pageWidth - marginX * 2
dateWidth == 35
hoursWidth == 30
priceWidth == 35
descWidth == tableWidth - dateWidth - hoursWidth - priceWidth
headerHeight == 8
\* the line height and the least row height of Math.max(descLines.length * 6, 8)
LineHeight == 6
MinRowHeight == 8

\* the advance of a character of the document's font, in mm: helvetica at 11 pt
\* averages about half an em; every character is given this one width
CharWidth == 2
StringWidth(text) == Len(text) * CharWidth

\* text.split(" "), on the texts that are drawn
Split(text) ==
    CHOOSE words \in DescriptionWords \cup { << "-" >> } : JoinWords(words) = text

\* jsPDF's splitParagraphIntoLines: the words are put on the line in turn, and a
\* word that would make the line longer than maxlen starts a new one.  No
\* drawn word is wider than a line by itself, so no word is chopped.
RECURSIVE WrapFrom(_, _, _, _, _)
WrapFrom(words, i, line, lines, maxlen) ==
    IF i > Len(words) THEN Append(lines, JoinWords(line))
    ELSE LET line_length == StringWidth(JoinWords(line))
             separator_length == IF line = <<>> THEN 0 ELSE StringWidth(" ")
             current_word_length == StringWidth(words[i])
         IN  IF line # <<>> /\ line_length + separator_length + current_word_length > maxlen
             THEN WrapFrom(words, i + 1, <<words[i]>>, Append(lines, JoinWords(line)), maxlen)
             ELSE WrapFrom(words, i + 1, Append(line, words[i]), lines, maxlen)

\* pdf.splitTextToSize(text, maxlen)
splitTextToSize(text, maxlen) == WrapFrom(Split(text), 1, <<>>, <<>>, maxlen)

\* (mutant) the row height without its minimum
rowHeight_NoMinimum(descLines) == Len(descLines) * LineHeight

\* Math.max(descLines.length * 6, 8)
rowHeight(descLines) == Max(Len(descLines) * LineHeight, MinRowHeight)

\* services.forEach from entry i on, with the cursor at cursorY: where each row's
\* texts and rule are put, and the cursor after the last row
RECURSIVE TableFrom(_, _, _)
TableFrom(i, cursorY, rows) ==
    IF i > Len(services) THEN [rows |-> rows, cursorY |-> cursorY]
    ELSE LET descLines == splitTextToSize(Or(services[i].description, "-"), descWidth - 6)
             height == rowHeight(descLines)
         IN  TableFrom(i + 1, cursorY + height,
                       Append(rows, [ cursorY |-> cursorY,
                                      textY |-> cursorY + 5,
                                      descLines |-> descLines,
                                      rowHeight |-> height,
                                      ruleY |-> cursorY + height ]))

\* cursorY where the first row starts: below the title, the taller of the two
\* blocks, the summary lines and the table's header
TableTop ==
    25 + 14
       + Max((Len(technicianLines) + 1) * 6, (Len(customerLines) + 1) * 6) + 4
       + Len(summaryLines) * 6 + 6
       + headerHeight

\* the table's rows on the page and the line of the total hours below them
TableLayout ==
    LET table == TableFrom(1, TableTop, <<>>)
    IN  [ top |-> TableTop,
          rows |-> table.rows,
          bottom |-> table.cursorY,
          totalsY |-> table.cursorY + 8 ]

\* if (signature) pdf.addImage(signature, ...): a data URL is a non-empty string
SignatureImages ==
    [role \in {r \in Roles : (IF r = "technician" THEN technicianSignature
                                ELSE customerSignature) # Null} |->
        IF role = "technician" THEN technicianSignature ELSE customerSignature]

\* the document built between new jsPDF(...) and pdf.save(...)
RenderPdf ==
    [ name |-> "leistungsnachweis.pdf",
      title |-> "Leistungsnachweis",
      technicianBlock |-> technicianLines,
      customerBlock |-> customerLines,
      summary |-> summaryLines,
      rows |-> [i \in DOMAIN services |-> ServiceRow(services[i])],
      table |-> TableLayout,
      totals |-> << "Gesamtstunden: " \o ToFixed2(totalHours),
                    "Gesamtpreis: " \o formatCurrency(totalAmount) >>,
      images |-> SignatureImages,
      captions |-> << "Datum, Unterschrift Techniker", "Datum, Unterschrift Kunde" >> ]

-----------------------------------------------------------------------------
(* Form State Holder: the handlers of App *)

\* what every App handler but the export leaves alone; it saves no document
AppEvent(handler) ==
    /\ event' = handler
    /\ saved' = <<>>
    /\ UNCHANGED <<sigVars, padVars>>

handleCustomerChange(field, value) ==
    /\ customer' = [customer EXCEPT ![field] = value]
    /\ AppEvent("handleCustomerChange")
    /\ UNCHANGED <<order, paymentMethod, services, showSecondTechnician,
                   companyTouched, totalHours, totalAmount, companyAddress,
                   companyLabel, uuids>>

\* setOrder((prev) => ({ ...prev, [field]: value })), and the memos of the next render
SetOrderField(field, value) ==
    /\ order' = [order EXCEPT ![field] = value]
    /\ companyAddress' = UseMemo(companyAddress, order'.company # order.company,
                                 ComputeCompanyAddress(order'.company))
    /\ companyLabel' = UseMemo(companyLabel, order'.company # order.company,
                               ComputeCompanyLabel(order'.company))

handleOrderChange(field, value) ==
    /\ SetOrderField(field, value)
    /\ AppEvent("handleOrderChange")
    /\ UNCHANGED <<customer, paymentMethod, services, showSecondTechnician,
                   companyTouched, totalHours, totalAmount, uuids>>

setPaymentMethod(option) ==
    /\ paymentMethod' = option
    /\ AppEvent("setPaymentMethod")
    /\ UNCHANGED <<customer, order, services, showSecondTechnician, companyTouched,
                   totalHours, totalAmount, companyAddress, companyLabel, uuids>>

\* onBlur of the company select
setCompanyTouched ==
    /\ companyTouched' = TRUE
    /\ AppEvent("setCompanyTouched")
    /\ UNCHANGED <<customer, order, paymentMethod, services, showSecondTechnician,
                   totalHours, totalAmount, companyAddress, companyLabel, uuids>>

handleAddSecondTechnician ==
    /\ showSecondTechnician' = TRUE
    /\ AppEvent("handleAddSecondTechnician")
    /\ UNCHANGED <<customer, order, paymentMethod, services, companyTouched,
                   totalHours, totalAmount, companyAddress, companyLabel, uuids>>

\* (mutant) the field is hidden and its value kept
handleRemoveSecondTechnician_KeepsValue ==
    /\ showSecondTechnician' = FALSE
    /\ AppEvent("handleRemoveSecondTechnician")
    /\ UNCHANGED <<customer, order, paymentMethod, services, companyTouched,
                   totalHours, totalAmount, companyAddress, companyLabel, uuids>>

handleRemoveSecondTechnician ==
    /\ showSecondTechnician' = FALSE
    /\ SetOrderField("technicianTwo", "")
    /\ AppEvent("handleRemoveSecondTechnician")
    /\ UNCHANGED <<customer, paymentMethod, services, companyTouched,
                   totalHours, totalAmount, uuids>>

\* setServices(next) and the memos of the next render; newArray: next is not prev itself
SetServices(next, newArray) ==
    /\ services' = next
    /\ totalHours' = UseMemo(totalHours, newArray, ComputeTotalHours(next))
    /\ totalAmount' = UseMemo(totalAmount, newArray, ComputeTotalAmount(next))

\* prev.map((service) => (service.id === id ? { ...service, [field]: value } : service))
MapService(prev, id, field, value) ==
    [i \in DOMAIN prev |->
        IF prev[i].id = id THEN [prev[i] EXCEPT ![field] = value] ELSE prev[i]]

handleServiceChange(id, field, value) ==
    /\ SetServices(MapService(services, id, field, value), TRUE)
    /\ AppEvent("handleServiceChange")
    /\ UNCHANGED <<customer, order, paymentMethod, showSecondTechnician,
                   companyTouched, companyAddress, companyLabel, uuids>>

\* (mutant) the new entry put first
AppendService_Prepend(prev, id) == <<createEmptyService(id)>> \o prev

\* [...prev, createEmptyService()]
AppendService(prev, id) == Append(prev, createEmptyService(id))

addService ==
    /\ uuids < MaxAdded + 1
    /\ uuids' = uuids + 1
    /\ SetServices(AppendService(services, uuids + 1), TRUE)
    /\ AppEvent("addService")
    /\ UNCHANGED <<customer, order, paymentMethod, showSecondTechnician,
                   companyTouched, companyAddress, companyLabel>>

\* (mutant) the filter without the length check
RemoveFrom_NoLengthCheck(prev, id) == SelectSeq(prev, LAMBDA service : service.id # id)

\* prev.length === 1 ? prev : prev.filter((service) => service.id !== id)
RemoveFrom(prev, id) ==
    IF Len(prev) = 1 THEN prev ELSE SelectSeq(prev, LAMBDA service : service.id # id)

removeService(id) ==
    /\ SetServices(RemoveFrom(services, id), Len(services) # 1)
    /\ AppEvent("removeService")
    /\ UNCHANGED <<customer, order, paymentMethod, showSecondTechnician,
                   companyTouched, companyAddress, companyLabel, uuids>>

\* (mutant) the export without its check of the company
handleExportPdf_NoCheck ==
    /\ event' = "handleExportPdf"
    /\ saved' = <<RenderPdf>>
    /\ UNCHANGED <<appVars, sigVars, padVars>>

\* (mutant) the export refusing a form whose technician is missing, too
handleExportPdf_TechnicianRequired ==
    /\ event' = "handleExportPdf"
    /\ IF order.company = "" \/ order.technician = ""
       THEN /\ companyTouched' = TRUE
            /\ saved' = <<>>
       ELSE /\ saved' = <<RenderPdf>>
            /\ UNCHANGED companyTouched
    /\ UNCHANGED <<customer, order, paymentMethod, services, showSecondTechnician,
                   totalHours, totalAmount, companyAddress, companyLabel, uuids,
                   sigVars, padVars>>

handleExportPdf ==
    /\ event' = "handleExportPdf"
    /\ IF order.company = ""
       THEN /\ companyTouched' = TRUE
            /\ saved' = <<>>
       ELSE /\ saved' = <<RenderPdf>>
            /\ UNCHANGED companyTouched
    /\ UNCHANGED <<customer, order, paymentMethod, services, showSecondTechnician,
                   totalHours, totalAmount, companyAddress, companyLabel, uuids,
                   sigVars, padVars>>

-----------------------------------------------------------------------------
(* Signature Capture Surface: one SignaturePad per signer role              *)
(*                                                                         *)
(* The surface is modelled along its x axis.  A column is one CSS pixel of  *)
(* the canvas's layout box; the 2D context's transform is scale(ratio), so  *)
(* user-space coordinates are CSS pixels too, and the bitmap of             *)
(* canvas.width device pixels shows the columns c with c * ratio <         *)
(* canvas.width.  A pointer position is the column it falls in, and a       *)
(* segment inks every column from its start to its end.                     *)
(* lastX/lastY are read only in the statement after their assignment; the   *)
(* point they hold lives on as the current point of the path.  The path is  *)
(* kept as its current point and the columns its segments cover, which is   *)
(* all that stroke() reads of it.                                           *)
(***************************************************************************)

\* window.devicePixelRatio || 1, as <<numerator, denominator>>: zoomed out, 1x, 2x
Ratios == { <<1, 2>>, <<1, 1>>, <<2, 1>> }

\* parent.getBoundingClientRect().width, in CSS pixels
Widths == {2}

Columns(width) == 0..(width - 1)

\* the columns of a segment from column a to column b
Segment(a, b) == Min(a, b)..Max(a, b)

EmptyPath == [started |-> FALSE, cur |-> 0, inked |-> {}]

\* (mutant) a resize that restyles the canvas and leaves its bitmap alone
ResizedCanvas_KeepsBitmap(p, width, ratio) ==
    LET canvasWidth == (width * ratio[1]) \div ratio[2]
        shown == {c \in Columns(width) : c * ratio[1] < canvasWidth * ratio[2]}
    IN  [p EXCEPT !.width = width,
                  !.canvasWidth = canvasWidth,
                  !.scale = ratio,
                  !.raster = [c \in shown |->
                                 IF c \in DOMAIN p.raster THEN p.raster[c] ELSE "background"]]

\* the canvas after resizeCanvas: canvas.width = rect.width * ratio resets the
\* bitmap and the context (transform, path); setTransform(ratio, ...);
\* fillRect(0, 0, rect.width, rect.height) paints every column the bitmap shows
ResizedCanvas(p, width, ratio) ==
    LET canvasWidth == (width * ratio[1]) \div ratio[2]
        shown == {c \in Columns(width) : c * ratio[1] < canvasWidth * ratio[2]}
        filled == {c \in shown : c < width}
    IN  [p EXCEPT !.width = width,
                  !.canvasWidth = canvasWidth,
                  !.scale = ratio,
                  !.raster = [c \in shown |->
                                 IF c \in filled THEN "background" ELSE "transparent"],
                  !.path = EmptyPath]

\* ctx.beginPath(); ctx.moveTo(x, y)
BeginPathAt(p, x) == [p EXCEPT !.path = [started |-> TRUE, cur |-> x, inked |-> {}]]

\* ctx.lineTo(x, y): on an empty path it only sets the current point
LineTo(p, x) ==
    IF p.path.started
    THEN [p EXCEPT !.path.inked = @ \cup Segment(p.path.cur, x), !.path.cur = x]
    ELSE [p EXCEPT !.path = [started |-> TRUE, cur |-> x, inked |-> {}]]

\* ctx.stroke(): every segment of the current path is painted
Stroke(p) ==
    [p EXCEPT !.raster = [c \in DOMAIN p.raster |->
                             IF c \in p.path.inked THEN "ink" ELSE p.raster[c]]]

\* ctx.clearRect(0, 0, w, h); ctx.fillRect(0, 0, w, h), in user space
ClearAndFill(p, w) ==
    [p EXCEPT !.raster = [c \in DOMAIN p.raster |->
                             IF c < w THEN "background" ELSE p.raster[c]]]

\* canvas.toDataURL('image/png')
ToDataURL(p) == [kind |-> "png", width |-> p.canvasWidth, pixels |-> p.raster]

IsBlank(raster) == \A c \in DOMAIN raster : raster[c] = "background"

\* the onChange prop of each pad
OnChangeProp(role) ==
    IF role = "technician" THEN "setTechnicianSignature" ELSE "setCustomerSignature"

\* (mutant) both pads wired to setTechnicianSignature
OnChange_SameSetter(role, dataUrl) ==
    /\ technicianSignature' = dataUrl
    /\ UNCHANGED customerSignature

OnChange(role, dataUrl) ==
    /\ technicianSignature' = IF role = "technician" THEN dataUrl ELSE technicianSignature
    /\ customerSignature' = IF role = "customer" THEN dataUrl ELSE customerSignature

Signature(role) == IF role = "technician" THEN technicianSignature ELSE customerSignature

\* a pad's events run no handler of App but the onChange prop, and save no document
PadEvent(handler) ==
    /\ event' = handler
    /\ saved' = <<>>
    /\ UNCHANGED appVars

handlePointerDown(role, x) ==
    /\ pad' = [pad EXCEPT ![role] = BeginPathAt([@ EXCEPT !.drawing = TRUE], x)]
    /\ PadEvent("none")
    /\ UNCHANGED <<sigVars, devicePixelRatio>>

handlePointerMove(role, x) ==
    /\ pad' = IF pad[role].drawing
              THEN [pad EXCEPT ![role] = Stroke(LineTo(@, x))]
              ELSE pad
    /\ PadEvent("none")
    /\ UNCHANGED <<sigVars, devicePixelRatio>>

\* drawing.current = false; emitChange()
stopDrawing(role) ==
    /\ pad' = [pad EXCEPT ![role].drawing = FALSE]
    /\ OnChange(role, ToDataURL(pad[role]))
    /\ PadEvent(OnChangeProp(role))
    /\ UNCHANGED devicePixelRatio

handleClear(role) ==
    /\ pad' = [pad EXCEPT ![role] = ClearAndFill(@, @.canvasWidth)]
    /\ OnChange(role, Null)
    /\ PadEvent(OnChangeProp(role))
    /\ UNCHANGED devicePixelRatio

\* the window's resize event: the resizeCanvas listener of every pad runs
resizeCanvas(ratio, widths) ==
    /\ devicePixelRatio' = ratio
    /\ pad' = [role \in Roles |-> ResizedCanvas(pad[role], widths[role], ratio)]
    /\ PadEvent("none")
    /\ UNCHANGED sigVars

-----------------------------------------------------------------------------
(* The state after the first render and its effects *)

MountedPad(width, ratio) ==
    ResizedCanvas([drawing |-> FALSE, width |-> 0, canvasWidth |-> 0, scale |-> <<1, 1>>,
                   raster |-> <<>>, path |-> EmptyPath],
                  width, ratio)

Init ==
    /\ customer = [fullName |-> "", email |-> "", street |-> "", city |-> "", phone |-> ""]
    /\ order = [orderNumber |-> "", technician |-> "", technicianTwo |-> "",
                month |-> "", year |-> CurrentYear, company |-> ""]
    /\ paymentMethod = paymentOptions[1]
    /\ services = <<createEmptyService(1)>>
    /\ uuids = 1
    /\ showSecondTechnician = FALSE
    /\ companyTouched = FALSE
    /\ technicianSignature = Null
    /\ customerSignature = Null
    /\ totalHours = ComputeTotalHours(services)
    /\ totalAmount = ComputeTotalAmount(services)
    /\ companyAddress = ComputeCompanyAddress(order.company)
    /\ companyLabel = ComputeCompanyLabel(order.company)
    /\ devicePixelRatio \in Ratios
    /\ \E widths \in [Roles -> Widths] :
          pad = [role \in Roles |-> MountedPad(widths[role], devicePixelRatio)]
    /\ event = "none"
    /\ saved = <<>>

-----------------------------------------------------------------------------
(* The events, as the rendered page wires them to the handlers *)

\* the inputs of the customer card, the order card and the payment buttons;
\* the second technician's input and its remove button exist only while shown,
\* the add button only while not
NextForm ==
    \/ \E field \in CustomerFields : \E value \in CustomerInputs(field) :
          handleCustomerChange(field, value)
    \/ \E field \in {"orderNumber", "technician", "month", "year", "company"} :
          \E value \in OrderInputs(field) : handleOrderChange(field, value)
    \/ /\ showSecondTechnician
       /\ \E value \in OrderInputs("technicianTwo") :
             handleOrderChange("technicianTwo", value)
    \/ \E i \in DOMAIN paymentOptions : setPaymentMethod(paymentOptions[i])
    \/ setCompanyTouched
    \/ ~showSecondTechnician /\ handleAddSecondTechnician
    \/ showSecondTechnician /\ handleRemoveSecondTechnician
    \/ handleExportPdf

\* the ids of the rendered rows: services.map((service) => ... key={service.id}
RowIds == {services[i].id : i \in DOMAIN services}

\* the hours and price inputs of the service table, its add and delete buttons,
\* with the company select and the export button
NextServices ==
    \/ \E id \in RowIds : \E field \in {"hours", "rate"} :
          \E value \in ServiceInputs(field) : handleServiceChange(id, field, value)
    \/ addService
    \/ \E id \in Ids : removeService(id)      \* as a function of any id, in the list or not
    \/ \E value \in OrderInputs("company") : handleOrderChange("company", value)
    \/ handleExportPdf

\* the pointer events of each canvas, its reset button, and the window's resize
NextPad ==
    \/ \E role \in Roles : \E x \in Columns(pad[role].width) : handlePointerDown(role, x)
    \/ \E role \in Roles : \E x \in Columns(pad[role].width) : handlePointerMove(role, x)
    \/ \E role \in Roles : stopDrawing(role)      \* pointerup
    \/ \E role \in Roles : stopDrawing(role)      \* pointerleave
    \/ \E role \in Roles : stopDrawing(role)      \* pointercancel
    \/ \E role \in Roles : handleClear(role)
    \/ \E ratio \in Ratios : \E widths \in [Roles -> Widths] : resizeCanvas(ratio, widths)

\* the date and description inputs of the service rows
NextRows ==
    \E id \in RowIds : \E field \in {"date", "description"} :
        \E value \in ServiceInputs(field) : handleServiceChange(id, field, value)

\* the description inputs of the service table, its add and delete buttons,
\* with the company select and the export button
NextTable ==
    \/ \E id \in RowIds : \E value \in ServiceInputs("description") :
          handleServiceChange(id, "description", value)
    \/ addService
    \/ \E id \in RowIds : removeService(id)
    \/ \E value \in OrderInputs("company") : handleOrderChange("company", value)
    \/ handleExportPdf

Next == NextForm \/ NextServices \/ NextRows \/ NextTable \/ NextPad

\* the page at 100% zoom on a 1x display
InitApp == Init /\ devicePixelRatio = <<1, 1>>

\* the whole page
Spec == Init /\ [][Next]_vars
\* the customer and order cards and the export button
SpecForm == InitApp /\ [][NextForm]_vars
\* the service table, the company select and the export button
SpecServices == InitApp /\ [][NextServices]_vars
\* the two signature pads
SpecPad == Init /\ [][NextPad]_vars
\* the descriptions of the service table and the export button
SpecTable == InitApp /\ [][NextTable]_vars

-----------------------------------------------------------------------------
(* Properties of the service list and its totals, under SpecServices *)

ServiceIds(list) == [i \in DOMAIN list |-> list[i].id]

\* the list without its k-th entry
WithoutIndex(list, k) == SubSeq(list, 1, k - 1) \o SubSeq(list, k + 1, Len(list))

\* C1: the service list never has fewer than one entry, and removeService on a
\* list of exactly one entry, for any id, leaves the list as it is.
C1_ListNeverEmpty ==
    /\ [](Len(services) >= 1)
    /\ [][\A id \in Ids :
            (removeService(id) /\ Len(services) = 1) => services' = services]_vars

\* removeService has run on a list that never held more than its first entry
C1_Witness ==
    /\ event = "removeService"
    /\ uuids = 1
    /\ Len(services) = 1

\* the entries whose field parses as a finite number
FiniteEntries(field) ==
    {i \in DOMAIN services : IsFinite(parseFloat(services[i][field]))}

\* sum, in hundredths, of a field over the entries S
RECURSIVE SumOfEntries(_, _)
SumOfEntries(field, S) ==
    IF S = {} THEN 0
    ELSE LET i == CHOOSE i \in S : TRUE
         IN  parseFloat(services[i][field]).cents + SumOfEntries(field, S \ {i})

\* C3: in every state, total hours is the sum of exactly the hours values that
\* parse as finite numbers and total amount the sum of exactly the rate values
\* that do, over the current entry list; an export prints these totals.
C3_TotalsFollowList ==
    /\ totalHours = Num(SumOfEntries("hours", FiniteEntries("hours")))
    /\ totalAmount = Num(SumOfEntries("rate", FiniteEntries("rate")))
    /\ saved # <<>> =>
          saved[1].totals =
             << "Gesamtstunden: "
                   \o ToFixed2(Num(SumOfEntries("hours", FiniteEntries("hours")))),
                "Gesamtpreis: "
                   \o formatCurrency(Num(SumOfEntries("rate", FiniteEntries("rate")))) >>

\* an entry was removed from a list that holds values that parse and values that do not
C3_Witness ==
    /\ event = "removeService"
    /\ Len(services) = 2
    /\ uuids = 3
    /\ totalHours.cents > 0
    /\ totalAmount.cents > 0
    /\ FiniteEntries("hours") # DOMAIN services
    /\ FiniteEntries("rate") # DOMAIN services

\* the rows of a saved document whose cell shows a number
NumberRows(doc, cell) == {i \in DOMAIN doc.rows : doc.rows[i][cell] # "-"}

\* C4: in an exported table a cell shows the dash exactly when its entry's
\* value does not parse as a finite number (never "0"), so the total is the sum
\* over the rows that show a number; hours "2", "abc" and rates "10.50", "" give
\* 2.00 hours, 10,50 EUR and two dashes in the second row.  (The strings hold
\* the no-break space that de-DE puts before the euro sign.)
C4_DashIffNotCounted ==
    saved # <<>> =>
        LET doc == saved[1]
        IN  /\ DOMAIN doc.rows = DOMAIN services
            /\ \A i \in DOMAIN services :
                  /\ doc.rows[i].hoursText = "-" <=> i \notin FiniteEntries("hours")
                  /\ doc.rows[i].rateText = "-" <=> i \notin FiniteEntries("rate")
                  /\ i \notin FiniteEntries("hours") =>
                        doc.rows[i].hoursText \notin {"0", "0.00", "NaN"}
                  /\ i \notin FiniteEntries("rate") =>
                        doc.rows[i].rateText \notin {"0", "0,00 €", "NaN"}
            /\ doc.totals[1] = "Gesamtstunden: "
                  \o ToFixed2(Num(SumOfEntries("hours", NumberRows(doc, "hoursText"))))
            /\ doc.totals[2] = "Gesamtpreis: "
                  \o formatCurrency(Num(SumOfEntries("rate", NumberRows(doc, "rateText"))))
            /\ ( /\ Len(services) = 2
                 /\ services[1].hours = <<"2">>
                 /\ services[2].hours = <<"a", "b", "c">>
                 /\ services[1].rate = <<"1", "0", ".", "5", "0">>
                 /\ services[2].rate = <<>> )
               => /\ doc.totals = <<"Gesamtstunden: 2.00", "Gesamtpreis: 10,50 €">>
                  /\ doc.rows[1].hoursText = "2.00"
                  /\ doc.rows[1].rateText = "10,50 €"
                  /\ doc.rows[2].hoursText = "-"
                  /\ doc.rows[2].rateText = "-"

\* the example of the claim has been exported
C4_Witness ==
    /\ saved # <<>>
    /\ Len(services) = 2
    /\ services[1].hours = <<"2">>
    /\ services[2].hours = <<"a", "b", "c">>
    /\ services[1].rate = <<"1", "0", ".", "5", "0">>
    /\ services[2].rate = <<>>

\* C7: the list is insertion-ordered.  addService appends one entry with empty
\* fields and an id no existing entry has, leaving the others as they are;
\* removeService(id) on a list longer than one removes exactly the entry with
\* that id (nothing if there is none) and keeps the order of the rest; no two
\* entries ever share an id.
C7_InsertionOrdered ==
    /\ [](\A i, j \in DOMAIN services : services[i].id = services[j].id => i = j)
    /\ [][ /\ addService =>
                /\ Len(services') = Len(services) + 1
                /\ SubSeq(services', 1, Len(services)) = services
                /\ LET new == services'[Len(services')]
                   IN  /\ new.date = "" /\ new.description = ""
                       /\ new.hours = <<>> /\ new.rate = <<>>
                       /\ \A i \in DOMAIN services : services[i].id # new.id
           /\ \A id \in Ids : removeService(id) =>
                IF Len(services) > 1 /\ \E k \in DOMAIN services : services[k].id = id
                THEN \E k \in DOMAIN services :
                        /\ services[k].id = id
                        /\ services' = WithoutIndex(services, k)
                ELSE services' = services ]_vars

\* the middle one of three entries was removed
C7_Witness ==
    /\ event = "removeService"
    /\ ServiceIds(services) = <<1, 3>>

-----------------------------------------------------------------------------
(* Properties of the export's check of the company and of the second        *)
(* technician, under SpecForm (C10 under SpecServices, where nothing but a  *)
(* refused export sets companyTouched)                                      *)

\* C2: whenever order.company is empty, the export produces no document and
\* raises the required-field flag, whatever the other fields hold.
C2_NoCompanyNoDocument ==
    /\ order.company = "" => saved = <<>>
    /\ (event = "handleExportPdf" /\ order.company = "") => companyTouched

\* an export was refused on a form that is filled in but for the company
C2_Witness ==
    /\ event = "handleExportPdf"
    /\ order.company = ""
    /\ \A field \in CustomerFields : customer[field] # ""
    /\ order.orderNumber # "" /\ order.technician # "" /\ order.technicianTwo # ""
    /\ order.month # "" /\ order.year # ""
    /\ paymentMethod = "Rechnung"

\* the lines a second technician would give in the technician block
SecondTechnicianLines == {"+ " \o value : value \in OrderInputs("technicianTwo")}

\* C9: handleRemoveSecondTechnician empties order.technicianTwo and changes no
\* other order field; so whenever the second technician's field is not shown,
\* order.technicianTwo is empty and an exported technician block has no line
\* for a second technician.
C9_HiddenTechnicianIsEmpty ==
    /\ [](~showSecondTechnician =>
             /\ order.technicianTwo = ""
             /\ saved # <<>> =>
                   \A i \in DOMAIN saved[1].technicianBlock :
                       saved[1].technicianBlock[i] \notin SecondTechnicianLines)
    /\ [][handleRemoveSecondTechnician =>
             order' = [order EXCEPT !.technicianTwo = ""]]_vars

\* the second technician's field was removed from an order with other fields set
C9_Witness ==
    /\ event = "handleRemoveSecondTechnician"
    /\ ~showSecondTechnician
    /\ order.technicianTwo = ""
    /\ order.technician # ""
    /\ order.company # ""

\* number of the given texts that are not empty
CountNonEmpty(texts) == Len(FilterBoolean(texts))

\* C10: with a company selected the required-field marker is not shown and an
\* export always produces the document, with a dash for each empty field that
\* has a placeholder and no line for the others; so an export refused for the
\* missing company succeeds once a company is selected.
C10_ExportRecovers ==
    /\ order.company # "" => ~companyError
    /\ (event = "handleExportPdf" /\ order.company # "") =>
          /\ saved # <<>>
          /\ LET doc == saved[1]
             IN  /\ order.technician = "" => doc.technicianBlock[1] = "-"
                 /\ customer.fullName = "" => doc.customerBlock[1] = "-"
                 /\ Len(doc.customerBlock) =
                       1 + CountNonEmpty(<<customer.street, customer.city,
                                           customer.phone, customer.email>>)
                 /\ order.orderNumber = "" => doc.summary[1] = "Auftragsnummer: -"
                 /\ order.month = "" =>
                       doc.summary[2] = (IF order.year = "" THEN "Zeitraum: -"
                                         ELSE "Zeitraum: - " \o order.year)
                 /\ \A i \in DOMAIN services :
                       /\ services[i].date = "" => doc.rows[i].dateText = "-"
                       /\ services[i].description = "" => doc.rows[i].descText = "-"
                       /\ services[i].hours = <<>> => doc.rows[i].hoursText = "-"
                       /\ services[i].rate = <<>> => doc.rows[i].rateText = "-"

\* an export was refused (nothing else sets the flag here), a company was then
\* selected and the export has produced the document
C10_Witness ==
    /\ companyTouched
    /\ event = "handleExportPdf"
    /\ order.company # ""
    /\ saved # <<>>

-----------------------------------------------------------------------------
(* Properties of the signature pads, under SpecPad *)

\* the stroke of a gesture reaches the form: a move that extends a begun path
\* leaves ink on the raster, and the end of a gesture over an inked raster
\* hands over an image that shows it
C5_StrokeIsExported ==
    [][\A role \in Roles :
          /\ \A x \in Columns(pad[role].width) :
                (handlePointerMove(role, x) /\ pad[role].drawing /\ pad[role].path.started)
                    => ~IsBlank(pad'[role].raster)
          /\ (stopDrawing(role) /\ ~IsBlank(pad[role].raster)) =>
                /\ Signature(role)' # Null
                /\ ~IsBlank(Signature(role)'.pixels)]_vars

\* clear reports the signature absent and leaves the raster blank
C5_ClearBlanksTheRaster ==
    [][\A role \in Roles :
          handleClear(role) =>
              /\ Signature(role)' = Null
              /\ IsBlank(pad'[role].raster)]_vars

\* C5: gesture-start, gesture-move (once or more), gesture-end hands a
\* non-blank image to the form for that role; clear afterwards reports the
\* signature absent and leaves the raster buffer blank.
C5_DrawThenClear == C5_StrokeIsExported /\ C5_ClearBlanksTheRaster

\* C6: a resize, while idle or while drawing and after any strokes, leaves the
\* raster buffer of every pad blank.
C6_ResizeBlanksTheRaster ==
    [][\A ratio \in Ratios : \A widths \in [Roles -> Widths] :
          resizeCanvas(ratio, widths) =>
              \A role \in Roles :
                  /\ DOMAIN pad'[role].raster # {}
                  /\ IsBlank(pad'[role].raster)]_vars

\* a pad (one drawing, one idle) whose raster is blank and whose path is reset
\* while the form still holds the image of its stroke: only a resize leaves that
StrokesLostToResize(role) ==
    /\ Signature(role) # Null
    /\ ~IsBlank(Signature(role).pixels)
    /\ IsBlank(pad[role].raster)
    /\ ~pad[role].path.started

C6_Witness ==
    /\ StrokesLostToResize("technician") /\ pad["technician"].drawing
    /\ StrokesLostToResize("customer") /\ ~pad["customer"].drawing

OtherRole(role) == CHOOSE other \in Roles : other # role

\* C8: a pad is idle or drawing.  Gesture-start leaves it drawing; a gesture-move
\* inks its segment while drawing and changes nothing while idle, and nothing
\* is inked on an idle pad; each gesture-end, cancel or leave leaves the pad
\* idle and hands the export of its current raster to the form, for its role.
C8_IdleDrawingMachine ==
    /\ [](\A role \in Roles : pad[role].drawing \in BOOLEAN)
    /\ [][\A role \in Roles :
             /\ \A x \in Columns(pad[role].width) :
                   handlePointerDown(role, x) => pad'[role].drawing
             /\ \A x \in Columns(pad[role].width) :
                   handlePointerMove(role, x) =>
                      IF pad[role].drawing
                      THEN /\ pad'[role].drawing
                           /\ pad[role].path.started =>
                                 \A c \in Segment(pad[role].path.cur, x) :
                                     pad'[role].raster[c] = "ink"
                      ELSE pad' = pad /\ UNCHANGED sigVars
             /\ (\E c \in DOMAIN pad[role].raster \cap DOMAIN pad'[role].raster :
                    pad[role].raster[c] # "ink" /\ pad'[role].raster[c] = "ink")
                   => pad[role].drawing
             /\ stopDrawing(role) =>
                   /\ ~pad'[role].drawing
                   /\ pad'[role].raster = pad[role].raster
                   /\ Signature(role)' = ToDataURL(pad[role])
                   /\ Signature(OtherRole(role))' = Signature(OtherRole(role))]_vars

\* a stroke was drawn on the customer's pad and its gesture has ended: the pad
\* is idle and the form holds its image, and none for the technician
C8_Witness ==
    /\ event = "setCustomerSignature"
    /\ ~pad["customer"].drawing
    /\ ~IsBlank(pad["customer"].raster)
    /\ customerSignature = ToDataURL(pad["customer"])
    /\ technicianSignature = Null

-----------------------------------------------------------------------------
(* Properties of the exported document's company lines, under SpecForm *)

\* the lines of a block, as a set
LinesOf(block) == {block[i] : i \in DOMAIN block}

\* C11: the technician block of every exported document has the label and the
\* address that companyOptions lists for the selected company; for "alsleben"
\* these are "IT Systemhaus Alsleben GmbH" and "Treskowallee 114, 10319 Berlin".
C11_CompanyLinesInBlock ==
    saved # <<>> =>
        /\ \E i \in DOMAIN companyOptions :
              /\ companyOptions[i].value = order.company
              /\ companyOptions[i].label \in LinesOf(saved[1].technicianBlock)
              /\ companyOptions[i].address \in LinesOf(saved[1].technicianBlock)
        /\ order.company = "alsleben" =>
              /\ "IT Systemhaus Alsleben GmbH" \in LinesOf(saved[1].technicianBlock)
              /\ "Treskowallee 114, 10319 Berlin" \in LinesOf(saved[1].technicianBlock)
        /\ order.company = "talk-phone" =>
              /\ "Talk & Phone GmbH" \in LinesOf(saved[1].technicianBlock)
              /\ "IT Systemhaus Alsleben GmbH" \notin LinesOf(saved[1].technicianBlock)

\* a document was exported for "alsleben" with both technicians named
C11_Witness ==
    /\ event = "handleExportPdf"
    /\ order.company = "alsleben"
    /\ saved # <<>>
    /\ saved[1].technicianBlock = << "Max Mueller", "+ Anna Schulz",
                                     "IT Systemhaus Alsleben GmbH",
                                     "Treskowallee 114, 10319 Berlin" >>

-----------------------------------------------------------------------------
(* Properties of the exported table's layout, under SpecTable *)

RECURSIVE SumOfHeights(_, _)
SumOfHeights(rows, n) == IF n = 0 THEN 0 ELSE rows[n].rowHeight + SumOfHeights(rows, n - 1)

\* C12: the export lays the service entries out in list order; a description
\* wider than its column is put on more than one line; each row is as high as
\* its description lines at 6 each and no less than 8, its rule is at its
\* bottom, and the next row starts there, so that the cursor below the table
\* is the cursor above it plus the heights of all rows.
C12_RowHeights ==
    saved # <<>> =>
        LET table == saved[1].table
            rows == table.rows
        IN  /\ Len(rows) = Len(services)
            /\ \A i \in DOMAIN rows :
                  LET text == IF services[i].description = "" THEN "-"
                              ELSE services[i].description
                      count == Len(rows[i].descLines)
                  IN  /\ JoinWords(rows[i].descLines) = text
                      /\ \A k \in DOMAIN rows[i].descLines :
                            StringWidth(rows[i].descLines[k]) <= descWidth - 6
                      /\ count >= 1
                      /\ count >= 2 <=> StringWidth(text) > descWidth - 6
                      /\ rows[i].rowHeight = (IF count * 6 >= 8 THEN count * 6 ELSE 8)
                      /\ rows[i].ruleY = rows[i].cursorY + rows[i].rowHeight
                      /\ rows[i].cursorY = (IF i = 1 THEN table.top ELSE rows[i - 1].ruleY)
            /\ table.bottom = table.top + SumOfHeights(rows, Len(rows))

\* a document was exported with a three-line, a one-line and a two-line
\* description, in this order: rows of 18, 8 and 12 below one another
C12_Witness ==
    /\ event = "handleExportPdf"
    /\ saved # <<>>
    /\ Len(saved[1].table.rows) = 3
    /\ [i \in 1..3 |-> Len(saved[1].table.rows[i].descLines)] = <<3, 1, 2>>
    /\ [i \in 1..3 |-> saved[1].table.rows[i].rowHeight] = <<18, 8, 12>>
    /\ saved[1].table.bottom = saved[1].table.top + 38

-----------------------------------------------------------------------------
(* The signature the form holds against the raster of its pad, under SpecPad *)

\* C13: in every state and for each role, the form holds a signature image
\* only if the raster of that role's pad has a drawn stroke on it; so after a
\* clear or a resize the signature is absent until a new stroke is drawn,
\* whatever pointer events come in between.
C13_SignatureOnlyWithStroke ==
    \A role \in Roles : Signature(role) # Null => ~IsBlank(pad[role].raster)

=============================================================================
